---- MODULE Spec2Model ----
(***************************************************************************)
(* Model of frontend/static/js/app.js: the dashboard client that loads the *)
(* category and material selectors, sends a recommendation request and an  *)
(* optional comparison request, and renders the responses.                 *)
(*                                                                         *)
(* The page is a record of the DOM elements the script touches plus the    *)
(* module-level chart handle; every function of the script is an operator  *)
(* from page to page, and every event-loop task (the click handler, each   *)
(* fetch continuation with the promise reactions chained on it) is one     *)
(* action.  Strings that the script parses are sequences of characters.    *)
(***************************************************************************)
EXTENDS Integers, Sequences, FiniteSets, TLC

VARIABLES
    alertBox,              \* #alertBox: [display, textContent, className]
    resultsSection,        \* #resultsSection style.display
    savingsSection,        \* #savingsSection style.display
    recommendBtn,          \* #recommendBtn: [disabled]
    materialsGrid,         \* #materialsGrid: the cards, in document order
    analyticsGrid,         \* #analyticsGrid: Null or the three analytics boxes
    summaryTbody,          \* #summaryTbody: the rows, in document order
    savingsPanel,          \* #savingsMetrics / #savingsDetails: Null or the record shown
    categorySelect,        \* #categorySelect: option values appended by loadCategories
    currentMaterialSelect, \* #currentMaterialSelect: option values appended by loadMaterials
    comparisonChart,       \* the module-level handle: 0 (null) or an index into charts
    charts,                \* every Chart instance constructed so far
    chains,                \* promise chains of runRecommendation still in flight
    outcome,               \* per upstream source, how its latest exchange ended
    fetches,               \* per upstream source, the number of requests sent
    runs,                  \* number of runs that passed validation
    calls,                 \* number of displayResults invocations
    lastArg,               \* the argument of the latest displayResults invocation
    lastInput              \* category and weight fields as read by the latest click

vars == << alertBox, resultsSection, savingsSection, recommendBtn, materialsGrid,
           analyticsGrid, summaryTbody, savingsPanel, categorySelect,
           currentMaterialSelect, comparisonChart, charts, chains, outcome,
           fetches, runs, calls, lastArg, lastInput >>

(***************************************************************************)
(* Bounds of the model.                                                    *)
(***************************************************************************)
MaxRuns == 2
MaxRecs == 2
MaxVal == 2

(***************************************************************************)
(* JavaScript values.                                                      *)
(***************************************************************************)
\* a number is [nan, val]; NaN is the one with nan = TRUE
Num(v) == [nan |-> FALSE, val |-> v]
NaN == [nan |-> TRUE, val |-> 0]

\* an optional DOM content or reference: << >> when empty (null), << x >> otherwise
Null == << >>

DefaultTopN == 5
AllowedTopN == {3, 5, 10}

(***************************************************************************)
(* String.prototype.trim, parseFloat and parseInt(_, 10) on character      *)
(* sequences.  Both parsers skip leading white space, read an optional     *)
(* sign and the longest run of decimal digits, and yield NaN when there is *)
(* no digit.  (Only integer literals are drawn as inputs, on which the two *)
(* parsers agree.)                                                         *)
(***************************************************************************)
IsSpace(c) == c = " "

Digits == << "0", "1", "2", "3", "4", "5", "6", "7", "8", "9" >>

IsDigit(c) == \E d \in 1..Len(Digits) : Digits[d] = c

DigitVal(c) == (CHOOSE d \in 1..Len(Digits) : Digits[d] = c) - 1

RECURSIVE TrimStart(_)
TrimStart(s) ==
    IF s # << >> /\ IsSpace(Head(s)) THEN TrimStart(Tail(s)) ELSE s

RECURSIVE TrimEnd(_)
TrimEnd(s) ==
    IF s # << >> /\ IsSpace(s[Len(s)]) THEN TrimEnd(SubSeq(s, 1, Len(s) - 1)) ELSE s

Trim(s) == TrimEnd(TrimStart(s))

RECURSIVE DigitRun(_, _, _)
\* the value of the longest digit prefix of s, NaN when s starts with no digit
DigitRun(s, acc, seen) ==
    IF s # << >> /\ IsDigit(Head(s))
    THEN DigitRun(Tail(s), 10 * acc + DigitVal(Head(s)), TRUE)
    ELSE IF seen THEN Num(acc) ELSE NaN

NumericPrefix(s) ==
    LET t == TrimStart(s)
        neg == t # << >> /\ Head(t) = "-"
        signed == t # << >> /\ Head(t) \in {"-", "+"}
        v == DigitRun(IF signed THEN Tail(t) ELSE t, 0, FALSE)
    IN  IF v.nan THEN NaN ELSE IF neg THEN Num(0 - v.val) ELSE v

parseFloat(s) == NumericPrefix(s)

parseInt(s) == NumericPrefix(s)

isNaN(v) == v.nan

(***************************************************************************)
(* Recommendation records.  Only the fields that decide control flow and   *)
(* the analytics are kept.  A record that lacks predicted_cost_inr makes   *)
(* the card template throw a TypeError (toFixed of undefined).             *)
(***************************************************************************)
Names == {"Bamboo", "Plastic"}

Records ==
    [material_name : Names, predicted_cost_inr : 1..MaxVal, predicted_co2_kg : 1..MaxVal]

Malformed == [material_name |-> "Plastic", predicted_co2_kg |-> 1]

HasCost(r) == "predicted_cost_inr" \in DOMAIN r

SeqsUpTo(S, n) == UNION { [1..k -> S] : k \in 0..n }

\* data.recommendations: absent (undefined / null) or an array
Absent == [absent |-> TRUE, items |-> << >>]
Given(list) == [absent |-> FALSE, items |-> list]

IsEmptyArg(recs) == recs.absent \/ Len(recs.items) = 0

\* the arguments displayResults is exercised on when taken alone
RecArgs == { Given(l) : l \in SeqsUpTo(Records, MaxRecs) } \cup {Absent}


(***************************************************************************)
(* The page: the DOM elements that the rendering functions write, and the  *)
(* chart handle with the chart instances.                                  *)
(***************************************************************************)
Page ==
    [ alertBox |-> alertBox, resultsSection |-> resultsSection,
      savingsSection |-> savingsSection, recommendBtn |-> recommendBtn,
      materialsGrid |-> materialsGrid, analyticsGrid |-> analyticsGrid,
      summaryTbody |-> summaryTbody, savingsPanel |-> savingsPanel,
      comparisonChart |-> comparisonChart, charts |-> charts ]

Commit(p) ==
    /\ alertBox' = p.alertBox
    /\ resultsSection' = p.resultsSection
    /\ savingsSection' = p.savingsSection
    /\ recommendBtn' = p.recommendBtn
    /\ materialsGrid' = p.materialsGrid
    /\ analyticsGrid' = p.analyticsGrid
    /\ summaryTbody' = p.summaryTbody
    /\ savingsPanel' = p.savingsPanel
    /\ comparisonChart' = p.comparisonChart
    /\ charts' = p.charts

(***************************************************************************)
(* UI helpers.                                                             *)
(***************************************************************************)
setLoading(p, state) == [p EXCEPT !.recommendBtn = [disabled |-> state]]

showAlert(p, type, msg) ==
    [p EXCEPT !.alertBox =
        [display |-> "block", textContent |-> msg, className |-> type]]

hideAlert(p) ==
    [p EXCEPT !.alertBox =
        [display |-> "none", textContent |-> "", className |-> p.alertBox.className]]

\* a reset that forgets the results section
resetResultsSavingsOnly(p) == [p EXCEPT !.savingsSection = "none"]

resetResults(p) ==
    [p EXCEPT !.resultsSection = "none", !.savingsSection = "none"]

resetUI(p) == resetResults(hideAlert(p))

(***************************************************************************)
(* displayResults and the functions it calls.                              *)
(***************************************************************************)
\* every card marked as the best one
CardAlwaysBest(r, i) ==
    [ material_name |-> r.material_name, cost |-> r.predicted_cost_inr,
      co2 |-> r.predicted_co2_kg, className |-> "material-card best" ]

Card(r, i) ==
    [ material_name |-> r.material_name, cost |-> r.predicted_cost_inr,
      co2 |-> r.predicted_co2_kg,
      className |-> IF i = 0 THEN "material-card best" ELSE "material-card" ]

RECURSIVE AppendCards(_, _, _)
\* recs.forEach((r, i) => grid.appendChild(card)), i 0-based; the template of a
\* record without a cost throws, which leaves the cards appended so far
AppendCards(grid, items, i) ==
    IF i >= Len(items) \/ ~HasCost(items[i + 1])
    THEN grid
    ELSE AppendCards(Append(grid, Card(items[i + 1], i)), items, i + 1)

displayResultsThrows(recs) ==
    /\ ~IsEmptyArg(recs)
    /\ \E i \in 1..Len(recs.items) : ~HasCost(recs.items[i])

\* the callbacks of the two reduce calls
\* the callback with <= : the later of two equal records wins
lowerCostOrEqual(a, b) == IF b.predicted_cost_inr <= a.predicted_cost_inr THEN b ELSE a

lowerCost(a, b) == IF b.predicted_cost_inr < a.predicted_cost_inr THEN b ELSE a

lowerCO2(a, b) == IF b.predicted_co2_kg < a.predicted_co2_kg THEN b ELSE a

RECURSIVE reduceCost(_, _, _)
\* Array.prototype.reduce without an initial value: acc starts as items[1]
reduceCost(items, i, acc) ==
    IF i > Len(items) THEN acc ELSE reduceCost(items, i + 1, lowerCost(acc, items[i]))

RECURSIVE reduceCO2(_, _, _)
reduceCO2(items, i, acc) ==
    IF i > Len(items) THEN acc ELSE reduceCO2(items, i + 1, lowerCO2(acc, items[i]))

Analytics(items) ==
    [ lowestCost |-> reduceCost(items, 2, items[1]),
      lowestCO2 |-> reduceCO2(items, 2, items[1]),
      best |-> items[1] ]

NewChart(items) ==
    [ live |-> TRUE,
      labels |-> [i \in 1..Len(items) |-> items[i].material_name],
      costData |-> [i \in 1..Len(items) |-> items[i].predicted_cost_inr],
      co2Data |-> [i \in 1..Len(items) |-> items[i].predicted_co2_kg] ]

\* Chart.prototype.destroy releases the instance and what it holds
Destroyed == [live |-> FALSE, labels |-> << >>, costData |-> << >>, co2Data |-> << >>]

\* a render that never destroys the chart it replaces
destroyCurrentSkipped(p) == p

destroyCurrent(p) ==
    IF p.comparisonChart # 0
    THEN [p EXCEPT !.charts[p.comparisonChart] = Destroyed]
    ELSE p

renderChart(p, items) ==
    LET q == destroyCurrent(p)
    IN  [q EXCEPT !.charts = Append(q.charts, NewChart(items)),
                  !.comparisonChart = Len(q.charts) + 1]

Row(r, i) ==
    [ material_name |-> r.material_name, cost |-> r.predicted_cost_inr,
      co2 |-> r.predicted_co2_kg, rank |-> i + 1 ]

RECURSIVE AppendRows(_, _, _)
AppendRows(tbody, items, i) ==
    IF i >= Len(items)
    THEN tbody
    ELSE AppendRows(Append(tbody, Row(items[i + 1], i)), items, i + 1)

\* a table built without emptying the body first
buildTableNoClear(p, items) ==
    [p EXCEPT !.summaryTbody = AppendRows(p.summaryTbody, items, 0)]

buildTable(p, items) ==
    [p EXCEPT !.summaryTbody = AppendRows(<< >>, items, 0)]

\* displayResults past its guard: the page after it returned or threw
renderResults(p, recs) ==
    LET items == recs.items
        g == [p EXCEPT !.materialsGrid = AppendCards(<< >>, items, 0)]
    IN  IF displayResultsThrows(recs)
        THEN g
        ELSE LET a == [g EXCEPT !.analyticsGrid = << Analytics(items) >>]
                 t == buildTable(renderChart(a, items), items)
             IN  [t EXCEPT !.resultsSection = "block"]

\* a guard that tests only for an absent argument ( !recs ), and lets an empty
\* array through to the rendering
displayResultsAbsentOnly(p, recs) ==
    IF recs.absent
    THEN showAlert(p, "warning", "No recommendations found.")
    ELSE IF Len(recs.items) = 0
    THEN [p EXCEPT !.materialsGrid = << >>]
    ELSE renderResults(p, recs)

displayResults(p, recs) ==
    IF IsEmptyArg(recs)
    THEN showAlert(p, "warning", "No recommendations found.")
    ELSE renderResults(p, recs)

(***************************************************************************)
(* displaySavings.  The section is made visible first; the templates throw *)
(* on a comparison record that lacks a numeric field.                      *)
(***************************************************************************)
GoodComparison ==
    [ current_material |-> "Plastic", recommended_material |-> "Bamboo",
      co2_reduction_percent |-> 40 ]

\* a comparison record without co2_reduction_percent
BadComparison ==
    [ current_material |-> "Plastic", recommended_material |-> "Bamboo",
      cost_difference_inr |-> 3, co2_savings_kg |-> 1 ]

displaySavingsThrows(cmp) == "co2_reduction_percent" \notin DOMAIN cmp

displaySavings(p, cmp) ==
    LET v == [p EXCEPT !.savingsSection = "block"]
    IN  IF displaySavingsThrows(cmp) THEN v ELSE [v EXCEPT !.savingsPanel = << cmp >>]


(***************************************************************************)
(* Upstream exchanges.  A fetch either rejects (transport error, or a body *)
(* that res.json() cannot parse) with an Error carrying a message, or      *)
(* yields the parsed body.                                                 *)
(***************************************************************************)
Sources == {"categories", "materials", "recommend", "compare"}

Rejected(msg) == [rejected |-> TRUE, message |-> msg, status |-> "", body |-> << >>]

Body(status, x) == [rejected |-> FALSE, message |-> "", status |-> status, body |-> << x >>]

Rejections == { Rejected("Failed to fetch"), Rejected("") }

Food == << "F", "o", "o", "d" >>

Blank == << " " >>

CategoryResponses ==
    { Body("success", << Food, Blank >>), Body("error", << >>) } \cup Rejections

MaterialResponses ==
    { Body("success", << "Plastic" >>), Body("error", << >>) } \cup Rejections

Bamboo(c, e) ==
    [material_name |-> "Bamboo", predicted_cost_inr |-> c, predicted_co2_kg |-> e]

Plastic(c, e) ==
    [material_name |-> "Plastic", predicted_cost_inr |-> c, predicted_co2_kg |-> e]

\* the recommendation lists the backend answers with in the full model
ResponseLists ==
    { Absent,
      Given(<< >>),
      Given(<< Bamboo(2, 1), Plastic(1, 2) >>),
      Given(<< Plastic(1, 1), Bamboo(1, 1) >>),
      Given(<< Bamboo(1, 1), Malformed >>) }

RecommendResponses ==
    { Body("success", l) : l \in ResponseLists } \cup { Body("error", Absent) }
        \cup Rejections

CompareResponses ==
    { Body("success", GoodComparison), Body("success", BadComparison),
      Body("error", BadComparison) } \cup Rejections

(***************************************************************************)
(* Form inputs of a click on the recommend button.                         *)
(***************************************************************************)
CategoryValues == {<< >>} \cup { categorySelect[i] : i \in 1..Len(categorySelect) }

MaterialValues ==
    {""} \cup { currentMaterialSelect[i] : i \in 1..Len(currentMaterialSelect) }

WeightValues ==
    { << "k", "g" >>, << "0" >>, << "-", "1" >>, << "2" >>, << " ", "2", "k", "g" >> }

TopNValues == { << "3" >>, << "1", "0" >>, << "7" >>, << >> }

FragilityValues == { "auto" }

BudgetValues == { << >>, << "5", "0" >> }

(***************************************************************************)
(* Promise reactions shared by the handlers.                               *)
(***************************************************************************)
\* a catch reaction that swallows the error
catchHandlerSilent(p, message) == p

\* .catch(err => showAlert("error", err.message || "Something went wrong."))
catchHandler(p, message) ==
    showAlert(p, "error", IF message = "" THEN "Something went wrong." ELSE message)

\* a chain without its finally reaction
finallyHandlerMissing(p) == p

\* .finally(() => setLoading(false))
finallyHandler(p) == setLoading(p, FALSE)

\* [3, 5, 10].includes(topNRaw) ? topNRaw : 5
topN(topNRaw) ==
    IF ~isNaN(topNRaw) /\ topNRaw.val \in AllowedTopN THEN topNRaw.val ELSE DefaultTopN

\* a validation that forgets the sign of the weight
validationMessageNaNOnly(category, weight) ==
    IF category = << >> THEN "Please select a product category."
    ELSE IF isNaN(weight) THEN "Please enter a valid product weight."
    ELSE ""

\* the validation of category and weight; "" when the inputs pass
validationMessage(category, weight) ==
    IF category = << >> THEN "Please select a product category."
    ELSE IF isNaN(weight) \/ weight.val <= 0 THEN "Please enter a valid product weight."
    ELSE ""

Set(f, k, v) == [f EXCEPT ![k] = v]

(***************************************************************************)
(* Initial state: DOMContentLoaded has run loadCategories(), loadMaterials()*)
(* and resetUI(); both load requests are pending.                          *)
(***************************************************************************)
NoInput == [clicked |-> FALSE, category |-> << >>, weight |-> << >>]

FreshPage ==
    [ alertBox |-> [display |-> "block", textContent |-> "", className |-> ""],
      resultsSection |-> "block", savingsSection |-> "block",
      recommendBtn |-> [disabled |-> FALSE],
      materialsGrid |-> << >>, analyticsGrid |-> Null, summaryTbody |-> << >>,
      savingsPanel |-> Null, comparisonChart |-> 0, charts |-> << >> ]

Shows(p) ==
    /\ alertBox = p.alertBox
    /\ resultsSection = p.resultsSection
    /\ savingsSection = p.savingsSection
    /\ recommendBtn = p.recommendBtn
    /\ materialsGrid = p.materialsGrid
    /\ analyticsGrid = p.analyticsGrid
    /\ summaryTbody = p.summaryTbody
    /\ savingsPanel = p.savingsPanel
    /\ comparisonChart = p.comparisonChart
    /\ charts = p.charts

Init ==
    /\ Shows(resetUI(FreshPage))
    /\ categorySelect = << >>
    /\ currentMaterialSelect = << >>
    /\ chains = {}
    /\ outcome = [s \in Sources |->
                    IF s \in {"categories", "materials"} THEN "pending" ELSE "none"]
    /\ fetches = [s \in Sources |-> IF s \in {"categories", "materials"} THEN 1 ELSE 0]
    /\ runs = 0
    /\ calls = 0
    /\ lastArg = Absent
    /\ lastInput = NoInput

Classify(resp) ==
    IF resp.rejected THEN "transport"
    ELSE IF resp.status # "success" THEN "nonsuccess" ELSE "success"

(***************************************************************************)
(* loadCategories / loadMaterials: the continuation of the fetch.          *)
(***************************************************************************)
loadFailed(p, resp, msg) ==
    IF Classify(resp) = "success" THEN p ELSE showAlert(p, "warning", msg)

RECURSIVE AppendOptions(_, _, _)
AppendOptions(select, list, i) ==
    IF i > Len(list) THEN select ELSE AppendOptions(Append(select, list[i]), list, i + 1)

CategoriesResponse(resp) ==
    /\ outcome["categories"] = "pending"
    /\ outcome' = Set(outcome, "categories", Classify(resp))
    /\ categorySelect' =
         IF Classify(resp) = "success"
         THEN AppendOptions(categorySelect, resp.body[1], 1) ELSE categorySelect
    /\ Commit(loadFailed(Page, resp, "Unable to load product categories."))
    /\ UNCHANGED << currentMaterialSelect, chains, fetches, runs, calls, lastArg,
                    lastInput >>

MaterialsResponse(resp) ==
    /\ outcome["materials"] = "pending"
    /\ outcome' = Set(outcome, "materials", Classify(resp))
    /\ currentMaterialSelect' =
         IF Classify(resp) = "success"
         THEN AppendOptions(currentMaterialSelect, resp.body[1], 1)
         ELSE currentMaterialSelect
    /\ Commit(loadFailed(Page, resp, "Unable to load materials list."))
    /\ UNCHANGED << categorySelect, chains, fetches, runs, calls, lastArg, lastInput >>

(***************************************************************************)
(* runRecommendation, the synchronous part: a click on the enabled button. *)
(***************************************************************************)
NewChain(id, category, weight, fragility, budgetRaw, currentMaterial, topNRaw) ==
    [ id |-> id, stage |-> "recommend",
      category |-> category, weight |-> weight, currentMaterial |-> currentMaterial,
      request |->
        [ category |-> category, weight |-> weight, top_n |-> topN(topNRaw),
          fragility_override |-> fragility,
          budget_limit |-> IF budgetRaw # << >> THEN << parseFloat(budgetRaw) >> ELSE Null ] ]

RunRecommendation(categoryRaw, weightRaw, fragility, budgetRaw, currentMaterial, topNRaw) ==
    LET p0 == resetResults(hideAlert(Page))
        category == Trim(categoryRaw)
        weight == parseFloat(weightRaw)
        msg == validationMessage(category, weight)
    IN  /\ ~recommendBtn.disabled
        /\ runs < MaxRuns
        /\ outcome' = [outcome EXCEPT !["recommend"] = IF msg = "" THEN "pending" ELSE "none",
                                      !["compare"] = "none"]
        /\ IF msg # ""
           THEN /\ Commit(showAlert(p0, "warning", msg))
                /\ UNCHANGED << chains, fetches, runs >>
           ELSE /\ Commit(setLoading(p0, TRUE))
                /\ chains' = chains \cup
                     { NewChain(runs + 1, category, weight.val, fragility, Trim(budgetRaw),
                                currentMaterial, parseInt(topNRaw)) }
                /\ fetches' = Set(fetches, "recommend", fetches["recommend"] + 1)
                /\ runs' = runs + 1
        /\ lastInput' = [clicked |-> TRUE, category |-> categoryRaw, weight |-> weightRaw]
        /\ UNCHANGED << categorySelect, currentMaterialSelect, calls, lastArg >>


(***************************************************************************)
(* runRecommendation, the continuation of the recommend fetch: the two     *)
(* .then reactions and, unless a compare request is returned, the .catch   *)
(* and .finally reactions.                                                 *)
(***************************************************************************)
CompareRequest(c) ==
    [category |-> c.category, weight |-> c.weight, current_material |-> c.currentMaterial]

\* if (currentMaterial) return fetch("/api/compare", ...)
sendsCompare(c) == c.currentMaterial # ""

RecommendOutcome(resp) ==
    IF Classify(resp) # "success" THEN Classify(resp)
    ELSE IF displayResultsThrows(resp.body[1]) THEN "throw"
    ELSE IF IsEmptyArg(resp.body[1]) THEN "empty" ELSE "success"

RecommendResponse(c, resp) ==
    LET o == RecommendOutcome(resp)
        shown == displayResults(Page, resp.body[1])
    IN  /\ c \in chains
        /\ c.stage = "recommend"
        /\ outcome' = [outcome EXCEPT !["recommend"] = o,
                         !["compare"] = IF o \in {"success", "empty"} /\ sendsCompare(c)
                                        THEN "pending" ELSE @]
        /\ IF o = "transport"
           THEN /\ Commit(finallyHandler(catchHandler(Page, resp.message)))
                /\ chains' = chains \ {c}
                /\ UNCHANGED << fetches, calls, lastArg >>
           ELSE IF o = "nonsuccess"
           THEN /\ Commit(finallyHandler(catchHandler(Page, "Recommendation failed")))
                /\ chains' = chains \ {c}
                /\ UNCHANGED << fetches, calls, lastArg >>
           ELSE /\ calls' = calls + 1
                /\ lastArg' = resp.body[1]
                /\ IF o = "throw"
                   THEN /\ Commit(finallyHandler(catchHandler(shown, "TypeError")))
                        /\ chains' = chains \ {c}
                        /\ UNCHANGED fetches
                   ELSE IF sendsCompare(c)
                   THEN /\ Commit(shown)
                        /\ chains' = (chains \ {c}) \cup
                             { [c EXCEPT !.stage = "compare", !.request = CompareRequest(c)] }
                        /\ fetches' = Set(fetches, "compare", fetches["compare"] + 1)
                   ELSE /\ Commit(finallyHandler(shown))
                        /\ chains' = chains \ {c}
                        /\ UNCHANGED fetches
        /\ UNCHANGED << categorySelect, currentMaterialSelect, runs, lastInput >>

(***************************************************************************)
(* runRecommendation, the continuation of the compare fetch, followed by   *)
(* the .catch and .finally reactions of the outer chain.                   *)
(***************************************************************************)
\* a reaction that shows the comparison whatever its status
compareThenUnchecked(p, resp) == displaySavings(p, resp.body[1])

\* .then(cmp => { if (cmp.status === "success") displaySavings(cmp.comparison); })
compareThen(p, resp) ==
    IF resp.status = "success" THEN displaySavings(p, resp.body[1]) ELSE p

CompareOutcome(resp) ==
    IF Classify(resp) # "success" THEN Classify(resp)
    ELSE IF displaySavingsThrows(resp.body[1]) THEN "throw" ELSE "success"

CompareResponse(c, resp) ==
    LET o == CompareOutcome(resp)
    IN  /\ c \in chains
        /\ c.stage = "compare"
        /\ outcome' = Set(outcome, "compare", o)
        /\ chains' = chains \ {c}
        /\ IF o = "transport"
           THEN Commit(finallyHandler(catchHandler(Page, resp.message)))
           ELSE IF o = "throw"
           THEN Commit(finallyHandler(catchHandler(compareThen(Page, resp), "TypeError")))
           ELSE Commit(finallyHandler(compareThen(Page, resp)))
        /\ UNCHANGED << categorySelect, currentMaterialSelect, fetches, runs, calls,
                        lastArg, lastInput >>

(***************************************************************************)
(* The full model.                                                         *)
(***************************************************************************)
Next ==
    \/ \E resp \in CategoryResponses : CategoriesResponse(resp)
    \/ \E resp \in MaterialResponses : MaterialsResponse(resp)
    \/ \E categoryRaw \in CategoryValues, weightRaw \in WeightValues,
          fragility \in FragilityValues, budgetRaw \in BudgetValues,
          currentMaterial \in MaterialValues, topNRaw \in TopNValues :
            RunRecommendation(categoryRaw, weightRaw, fragility, budgetRaw,
                              currentMaterial, topNRaw)
    \/ \E c \in chains, resp \in RecommendResponses : RecommendResponse(c, resp)
    \/ \E c \in chains, resp \in CompareResponses : CompareResponse(c, resp)

Spec == Init /\ [][Next]_vars

\* every fetch eventually resolves or rejects
Fairness ==
    /\ WF_vars(\E resp \in CategoryResponses : CategoriesResponse(resp))
    /\ WF_vars(\E resp \in MaterialResponses : MaterialsResponse(resp))
    /\ WF_vars(\E c \in chains, resp \in RecommendResponses : RecommendResponse(c, resp))
    /\ WF_vars(\E c \in chains, resp \in CompareResponses : CompareResponse(c, resp))

FairSpec == Spec /\ Fairness

(***************************************************************************)
(* displayResults taken alone: one call, on any argument, on the page left *)
(* by an earlier render (or by none).                                      *)
(***************************************************************************)
PriorLists ==
    { Absent, Given(<< Bamboo(2, 1), Plastic(1, 2) >>), Given(<< Plastic(1, 1) >>) }

InitDisplay ==
    /\ \E prior \in PriorLists : Shows(displayResults(resetUI(FreshPage), prior))
    /\ categorySelect = << >>
    /\ currentMaterialSelect = << >>
    /\ chains = {}
    /\ outcome = [s \in Sources |-> "none"]
    /\ fetches = [s \in Sources |-> 0]
    /\ runs = 0
    /\ calls = 0
    /\ lastArg = Absent
    /\ lastInput = NoInput

DisplayResultsCall(recs) ==
    /\ calls = 0
    /\ calls' = calls + 1
    /\ lastArg' = recs
    /\ Commit(displayResults(Page, recs))
    /\ UNCHANGED << categorySelect, currentMaterialSelect, chains, outcome, fetches, runs,
                    lastInput >>

NextDisplay == \E recs \in RecArgs : DisplayResultsCall(recs)

DisplaySpec == InitDisplay /\ [][NextDisplay]_vars


(***************************************************************************)
(* Properties.                                                             *)
(***************************************************************************)
Failures == {"nonsuccess", "transport"}

\* the latest displayResults call was given a non-empty list and rendered it
Rendered == calls > 0 /\ ~IsEmptyArg(lastArg) /\ ~displayResultsThrows(lastArg)

Costs(items) == [i \in 1..Len(items) |-> items[i].predicted_cost_inr]

Emissions(items) == [i \in 1..Len(items) |-> items[i].predicted_co2_kg]

\* the lowest index holding a minimal value
FirstMinimal(vals) ==
    CHOOSE i \in 1..Len(vals) :
        /\ \A j \in 1..Len(vals) : vals[i] <= vals[j]
        /\ \A j \in 1..(i - 1) : vals[j] # vals[i]

\* C1: after displayResults on a non-empty list, the LOWEST COST box shows the
\* first record of minimal predicted_cost_inr and the LOWEST CO2 box shows the
\* first record of minimal predicted_co2_kg, each chosen independently.
C1_FirstMinimalRecords ==
    Rendered =>
        /\ Len(analyticsGrid) = 1
        /\ analyticsGrid[1].lowestCost = lastArg.items[FirstMinimal(Costs(lastArg.items))]
        /\ analyticsGrid[1].lowestCO2 = lastArg.items[FirstMinimal(Emissions(lastArg.items))]

\* a tie on cost between two different records, resolved to the first, with the
\* lowest emissions found on the other record
C1_Witness ==
    /\ Rendered
    /\ Len(lastArg.items) = 2
    /\ lastArg.items[1].predicted_cost_inr = lastArg.items[2].predicted_cost_inr
    /\ lastArg.items[2].predicted_co2_kg < lastArg.items[1].predicted_co2_kg
    /\ analyticsGrid[1].lowestCost = lastArg.items[1]
    /\ analyticsGrid[1].lowestCO2 = lastArg.items[2]

BestCards == { i \in 1..Len(materialsGrid) : materialsGrid[i].className = "material-card best" }

\* C2: after displayResults on a non-empty list, BEST OVERALL shows records[0]
\* whatever the costs and emissions are, there is one card per record, and the
\* card at index 0 is the only one marked "best".
C2_BestIsFirst ==
    Rendered =>
        /\ analyticsGrid[1].best = lastArg.items[1]
        /\ Len(materialsGrid) = Len(lastArg.items)
        /\ BestCards = {1}

\* the first record is neither the cheapest nor the cleanest one
C2_Witness ==
    /\ Rendered
    /\ Len(lastArg.items) = 2
    /\ analyticsGrid[1].best = lastArg.items[1]
    /\ analyticsGrid[1].lowestCost = lastArg.items[2]
    /\ analyticsGrid[1].lowestCO2 = lastArg.items[2]
    /\ lastArg.items[1] # lastArg.items[2]

\* C3: after buildTable(recs) the table body holds one row per record, in input
\* order, the row of the i-th record (0-indexed) showing rank i + 1; rows of an
\* earlier render are gone.
C3_TableRanks ==
    Rendered =>
        /\ Len(summaryTbody) = Len(lastArg.items)
        /\ \A k \in 1..Len(summaryTbody) :
              /\ summaryTbody[k].material_name = lastArg.items[k].material_name
              /\ summaryTbody[k].cost = lastArg.items[k].predicted_cost_inr
              /\ summaryTbody[k].co2 = lastArg.items[k].predicted_co2_kg
              /\ summaryTbody[k].rank = (k - 1) + 1

\* a second render (two charts were made) of a one-record list over a page that
\* an earlier render had left with two rows
C3_Witness ==
    /\ Rendered
    /\ Len(charts) = 2
    /\ Len(charts[2].labels) = 1
    /\ Len(summaryTbody) = 1
    /\ summaryTbody[1].rank = 1

NoRecommendationsAlert ==
    [display |-> "block", textContent |-> "No recommendations found.",
     className |-> "warning"]

\* C4: a displayResults call on an empty or absent list shows the warning
\* "No recommendations found." and renders nothing: grid, analytics, table, chart
\* handle and charts are unchanged and the results section is not made visible.
C4_EmptyInputRendersNothing ==
    [][ (calls' = calls + 1 /\ IsEmptyArg(lastArg')) =>
            /\ alertBox' = NoRecommendationsAlert
            /\ UNCHANGED << materialsGrid, analyticsGrid, summaryTbody, comparisonChart,
                            charts, resultsSection >> ]_vars

\* an empty answer after an earlier run had rendered: the old cards and chart are
\* still in the page, and the results section stays hidden
C4_Witness ==
    /\ outcome["recommend"] = "empty"
    /\ alertBox = NoRecommendationsAlert
    /\ resultsSection = "none"
    /\ Len(materialsGrid) > 0
    /\ comparisonChart # 0

AllSpaces(s) == \A i \in 1..Len(s) : s[i] = " "

PositiveNumber(s) == ~parseFloat(s).nan /\ parseFloat(s).val > 0

InvalidInput == AllSpaces(lastInput.category) \/ ~PositiveNumber(lastInput.weight)

FailureStep(s) == outcome[s] = "pending" /\ outcome'[s] \in Failures

NoRetry ==
    /\ fetches["categories"] = 1
    /\ fetches["materials"] = 1
    /\ fetches["recommend"] = runs
    /\ fetches["compare"] <= calls

\* C6 as stated: every upstream failure of any of the four sources ends with the
\* alert visible, and no request is sent a second time.
C6_EveryFailureAlerts ==
    /\ [][ \A s \in Sources : FailureStep(s) => alertBox'.display = "block" ]_vars
    /\ []NoRetry

\* C6 as amended: every upstream failure ends with the alert visible, except a
\* non-success status of the comparison source, which leaves the alert as it
\* was; no request is sent a second time.
C6_FailuresAlertExceptCompareStatus ==
    /\ [][ \A s \in Sources :
              FailureStep(s) =>
                  IF s = "compare" /\ outcome'[s] = "nonsuccess"
                  THEN alertBox' = alertBox
                  ELSE alertBox'.display = "block" ]_vars
    /\ []NoRetry

\* a comparison that failed in transport, reported as an error alert
C6_Witness ==
    /\ outcome["compare"] = "transport"
    /\ alertBox.display = "block"
    /\ alertBox.className = "error"
    /\ fetches["compare"] = 1

RunFailed ==
    chains = {} /\ (outcome["recommend"] \in Failures \/ outcome["compare"] \in Failures)

\* C7 as stated: once a run has ended with an upstream failure of the
\* recommendation or the comparison source, both sections are hidden.
C7_FailureLeavesBothHidden ==
    RunFailed => resultsSection = "none" /\ savingsSection = "none"

\* C7 as amended: once a run has ended with an upstream failure, the savings
\* section is hidden, and the results section is hidden too when the failure is
\* that of the recommendation source.
C7_FailureLeavesSavingsHidden ==
    RunFailed =>
        /\ savingsSection = "none"
        /\ outcome["recommend"] \in Failures => resultsSection = "none"

\* a second run that failed at the recommendation source, on a page where the
\* first run had rendered results
C7_Witness ==
    /\ RunFailed
    /\ outcome["recommend"] \in Failures
    /\ runs = 2
    /\ comparisonChart # 0
    /\ resultsSection = "none"

LiveCharts == { i \in 1..Len(charts) : charts[i].live }

\* C8: at most one chart is live, it is the one the comparisonChart handle
\* refers to, and its labels and data are those of the latest list rendered
\* (the list the table shows, and the latest argument while results are shown).
C8_SingleLiveChart ==
    /\ Cardinality(LiveCharts) <= 1
    /\ LiveCharts = IF comparisonChart = 0 THEN {} ELSE {comparisonChart}
    /\ comparisonChart # 0 =>
          /\ charts[comparisonChart].labels =
                [i \in 1..Len(summaryTbody) |-> summaryTbody[i].material_name]
          /\ charts[comparisonChart].costData =
                [i \in 1..Len(summaryTbody) |-> summaryTbody[i].cost]
          /\ charts[comparisonChart].co2Data =
                [i \in 1..Len(summaryTbody) |-> summaryTbody[i].co2]
    /\ resultsSection = "block" =>
          /\ comparisonChart # 0
          /\ charts[comparisonChart].costData = Costs(lastArg.items)
          /\ charts[comparisonChart].co2Data = Emissions(lastArg.items)

\* two renders: the first chart destroyed, the second live and current
C8_Witness ==
    /\ Len(charts) = 2
    /\ ~charts[1].live
    /\ charts[2].live
    /\ comparisonChart = 2

\* C9: the button is disabled exactly while a chain is in flight, at most one
\* chain is ever in flight, and (every fetch settling) a disabled button is
\* eventually enabled again.
C9_ButtonTracksChain ==
    /\ [](recommendBtn.disabled <=> chains # {})
    /\ [](Cardinality(chains) <= 1)
    /\ (recommendBtn.disabled ~> ~recommendBtn.disabled)

\* a run ended by an exception thrown while rendering, the button enabled again
C9_Witness ==
    /\ outcome["recommend"] = "throw"
    /\ chains = {}
    /\ ~recommendBtn.disabled
    /\ alertBox.className = "error"

ComparePrecondition ==
    \A c \in chains :
        c.stage = "compare" =>
            /\ outcome["recommend"] \in {"success", "empty"}
            /\ c.currentMaterial # ""

\* C10 as stated: the savings section is visible only if the results section is,
\* and a compare request is in flight only after a successful recommendation
\* response and with a current material selected.
C10_SavingsOnlyWithResults ==
    /\ savingsSection = "block" => resultsSection = "block"
    /\ ComparePrecondition

\* C10 as amended: the savings section is visible only after a successful
\* recommendation response and a successful comparison response of the same
\* run, and the results section is then visible too unless the recommendation
\* list was empty or absent; a compare request is in flight only after a
\* successful recommendation response and with a current material selected.
C10_SavingsOnlyAfterSuccess ==
    /\ savingsSection = "block" =>
          /\ outcome["recommend"] \in {"success", "empty"}
          /\ outcome["compare"] \in {"success", "throw"}
          /\ resultsSection = "block" \/ outcome["recommend"] = "empty"
    /\ ComparePrecondition

\* savings shown for a run whose recommendation list was empty
C10_Witness ==
    /\ savingsSection = "block"
    /\ resultsSection = "none"
    /\ outcome["recommend"] = "empty"
    /\ savingsPanel = << GoodComparison >>

====
